---- MODULE Spec2Model ----
(***************************************************************************)
(* Model of the browser-side ApiClient.                                    *)
(*                                                                         *)
(* Text (cookie strings, URLs, tokens) is a sequence of one-character      *)
(* strings, so that encoding, cookie serialisation, cookie parsing and the *)
(* login-URL match are computed character by character as the code does.   *)
(***************************************************************************)
EXTENDS Integers, Sequences, FiniteSets, TLC

(***************************************************************************)
(* Bounds of the model.                                                    *)
(***************************************************************************)
\* Number of client-method invocations made in one behaviour.
MaxCalls == 2

\* Slots for the invocations that are in progress at the same time.
Procs == {1, 2}

(***************************************************************************)
(* Text helpers.                                                           *)
(***************************************************************************)
RECURSIVE Concat(_)
\* Array.prototype.join('') / string concatenation of a list of texts.
Concat(parts) ==
    IF parts = <<>> THEN <<>> ELSE Head(parts) \o Concat(Tail(parts))

\* First index of character c in s, 0 when absent.
IndexOf(s, c) ==
    IF \E i \in 1..Len(s) : s[i] = c
    THEN CHOOSE i \in 1..Len(s) : s[i] = c /\ \A j \in 1..(i - 1) : s[j] # c
    ELSE 0

\* s.substring(from - 1): the characters from index `from` on.
From(s, from) == IF from > Len(s) THEN <<>> ELSE SubSeq(s, from, Len(s))

\* The characters before index `to`.
Before(s, to) == IF to <= 1 THEN <<>> ELSE SubSeq(s, 1, to - 1)

RECURSIVE Split(_, _)
\* s.split(c)
Split(s, c) ==
    LET i == IndexOf(s, c)
    IN IF i = 0 THEN <<s>> ELSE <<Before(s, i)>> \o Split(From(s, i + 1), c)

RECURSIVE TrimLeft(_)
TrimLeft(s) == IF s # <<>> /\ Head(s) = " " THEN TrimLeft(Tail(s)) ELSE s

RECURSIVE TrimRight(_)
TrimRight(s) ==
    IF s # <<>> /\ s[Len(s)] = " " THEN TrimRight(SubSeq(s, 1, Len(s) - 1)) ELSE s

Trim(s) == TrimRight(TrimLeft(s))

DigitChars == <<"0", "1", "2", "3", "4", "5", "6", "7", "8", "9">>

IsDigit(c) == \E d \in 1..10 : DigitChars[d] = c

DigitValue(c) == (CHOOSE d \in 1..10 : DigitChars[d] = c) - 1

RECURSIVE NatToText(_)
NatToText(n) ==
    IF n < 10 THEN <<DigitChars[n + 1]>>
    ELSE NatToText(n \div 10) \o <<DigitChars[(n % 10) + 1]>>

\* String(n) for an integer n, as in "=" + optionValue.
NumberToText(n) == IF n < 0 THEN <<"-">> \o NatToText(0 - n) ELSE NatToText(n)

RECURSIVE TextToNat(_, _)
TextToNat(s, acc) ==
    IF s = <<>> THEN acc ELSE TextToNat(Tail(s), acc * 10 + DigitValue(Head(s)))

(***************************************************************************)
(* URI component encoding (the ECMAScript built-ins the client calls).     *)
(***************************************************************************)
\* Characters encodeURIComponent leaves alone, among those the model uses.
UnreservedChars == {"a", "b", "k", "q", "s", "x", "0", "1", "2", "3", "4", "5", "6",
                    "7", "8", "9", "-", "_", ".", "!", "~", "*", "'", "(", ")"}

\* The two hexadecimal digits of the UTF-8 byte of each escaped character.
PercentCode(c) ==
    CASE c = ";" -> <<"3", "B">>
      [] c = "=" -> <<"3", "D">>
      [] c = "%" -> <<"2", "5">>
      [] c = " " -> <<"2", "0">>
      [] c = "/" -> <<"2", "F">>
      [] c = ":" -> <<"3", "A">>
      [] c = "?" -> <<"3", "F">>

EscapedChars == {";", "=", "%", " ", "/", ":", "?"}

RECURSIVE encodeURIComponent(_)
encodeURIComponent(s) ==
    IF s = <<>> THEN <<>>
    ELSE (IF Head(s) \in UnreservedChars THEN <<Head(s)>>
          ELSE <<"%">> \o PercentCode(Head(s)))
         \o encodeURIComponent(Tail(s))

\* A "%" must be followed by the two hex digits of a character.
IsEscapeAt(s) ==
    /\ Len(s) >= 3
    /\ \E c \in EscapedChars : PercentCode(c) = <<s[2], s[3]>>

RECURSIVE WellFormedURIComponent(_)
\* FALSE where decodeURIComponent throws URIError.
WellFormedURIComponent(s) ==
    IF s = <<>> THEN TRUE
    ELSE IF Head(s) = "%"
         THEN IsEscapeAt(s) /\ WellFormedURIComponent(From(s, 4))
         ELSE WellFormedURIComponent(Tail(s))

RECURSIVE decodeURIComponent(_)
decodeURIComponent(s) ==
    IF s = <<>> THEN <<>>
    ELSE IF Head(s) = "%" /\ IsEscapeAt(s)
         THEN <<CHOOSE c \in EscapedChars : PercentCode(c) = <<s[2], s[3]>>>>
              \o decodeURIComponent(From(s, 4))
         ELSE <<Head(s)>> \o decodeURIComponent(Tail(s))

(***************************************************************************)
(* Regular expressions, as far as the client uses them: a pattern is a     *)
(* sequence of atoms, each a literal character or "." (any character).     *)
(***************************************************************************)
RegExpMetaChars == {".", "$", "?", "*", "|", "{", "}", "(", ")", "[", "]", "\\", "/", "+", "^"}

RECURSIVE EscapeRegExp(_)
\* name.replace(/([\.$?*|{}\(\)\[\]\\\/\+^])/g, '\\$1')
EscapeRegExp(s) ==
    IF s = <<>> THEN <<>>
    ELSE (IF Head(s) \in RegExpMetaChars THEN <<"\\", Head(s)>> ELSE <<Head(s)>>)
         \o EscapeRegExp(Tail(s))

RECURSIVE RegExpAtoms(_)
\* The atoms of a pattern text: "\c" is the literal c, "." matches any character.
RegExpAtoms(p) ==
    IF p = <<>> THEN <<>>
    ELSE IF Head(p) = "\\" /\ Len(p) >= 2
         THEN <<[any |-> FALSE, ch |-> p[2]]>> \o RegExpAtoms(From(p, 3))
         ELSE <<[any |-> Head(p) = ".", ch |-> Head(p)]>> \o RegExpAtoms(Tail(p))

\* The atoms match the text at position k.
AtomsMatchAt(atoms, text, k) ==
    /\ k >= 1
    /\ k + Len(atoms) - 1 <= Len(text)
    /\ \A i \in 1..Len(atoms) : atoms[i].any \/ text[k + i - 1] = atoms[i].ch

\* text.match(pattern) finds a match somewhere in the text (no anchors).
RegExpSearch(text, pattern) ==
    \E k \in 1..(Len(text) + 1) : AtomsMatchAt(RegExpAtoms(pattern), text, k)

(***************************************************************************)
(* The browser's cookie store behind document.cookie.  A stored cookie is  *)
(* [name, value, maxAge]; maxAge = -1 stands for a session cookie.         *)
(***************************************************************************)
SessionCookie == -1

\* An attribute "max-age=<digits>" (any letter case is not modelled: the client writes lower case).
MaxAgeKey == <<"m", "a", "x", "-", "a", "g", "e">>

IsIntegerText(s) ==
    /\ s # <<>>
    /\ LET d == IF Head(s) = "-" THEN Tail(s) ELSE s
       IN d # <<>> /\ \A i \in 1..Len(d) : IsDigit(d[i])

TextToInteger(s) ==
    IF Head(s) = "-" THEN 0 - TextToNat(Tail(s), 0) ELSE TextToNat(s, 0)

\* The value of the last valid max-age attribute among the attribute texts, or SessionCookie.
RECURSIVE MaxAgeOf(_, _)
MaxAgeOf(attrs, sofar) ==
    IF attrs = <<>> THEN sofar
    ELSE LET a == Head(attrs)
             eq == IndexOf(a, "=")
             key == Trim(IF eq = 0 THEN a ELSE Before(a, eq))
             val == Trim(IF eq = 0 THEN <<>> ELSE From(a, eq + 1))
         IN MaxAgeOf(Tail(attrs),
                     IF key = MaxAgeKey /\ IsIntegerText(val)
                     THEN [set |-> TRUE, age |-> TextToInteger(val)]
                     ELSE sofar)

RemoveCookie(store, name) == SelectSeq(store, LAMBDA c : c.name # name)

HasCookie(store, name) == \E i \in 1..Len(store) : store[i].name = name

\* The stored text of the cookie of that name, if there is one.
StoredValue(store, name) ==
    IF HasCookie(store, name)
    THEN [tag |-> "string",
          chars |-> store[CHOOSE i \in 1..Len(store) : store[i].name = name].value]
    ELSE [tag |-> "undefined", chars |-> <<>>]

\* Assignment to document.cookie: the browser parses one cookie string and
\* creates, replaces or (max-age <= 0) deletes the cookie of that name.
DocumentCookieAssign(store, text) ==
    LET parts == Split(text, ";")
        pair  == Head(parts)
        eq    == IndexOf(pair, "=")
        name  == Trim(Before(pair, eq))
        value == Trim(From(pair, eq + 1))
        age   == MaxAgeOf(Tail(parts), [set |-> FALSE, age |-> SessionCookie])
        entry == [name |-> name, value |-> value,
                  maxAge |-> IF age.set THEN age.age ELSE SessionCookie]
    IN IF eq = 0 THEN store
       ELSE IF age.set /\ age.age <= 0 THEN RemoveCookie(store, name)
       ELSE IF HasCookie(store, name)
            THEN [i \in 1..Len(store) |->
                     IF store[i].name = name THEN entry ELSE store[i]]
            ELSE Append(store, entry)

RECURSIVE CookieList(_)
CookieList(store) ==
    IF store = <<>> THEN <<>>
    ELSE Head(store).name \o <<"=">> \o Head(store).value
         \o (IF Len(store) > 1 THEN <<";", " ">> ELSE <<>>)
         \o CookieList(Tail(store))

\* Reading document.cookie: "name=value; name=value" of the cookies in the store.
DocumentCookie(store) == CookieList(store)

(***************************************************************************)
(* ApiClient.getCookie and ApiClient.setCookie.                            *)
(***************************************************************************)
Undefined == [tag |-> "undefined", chars |-> <<>>]

Str(chars) == [tag |-> "string", chars |-> chars]

\* JavaScript truthiness of a string-or-undefined value.
Truthy(v) == v.tag = "string" /\ v.chars # <<>>

\* Positions where "(?:^|; )" + name + "=" matches, as the index of the name.
CookieMatchStarts(doc, atoms) ==
    {k \in 1..Len(doc) :
        /\ k = 1 \/ (k >= 3 /\ doc[k - 2] = ";" /\ doc[k - 1] = " ")
        /\ AtomsMatchAt(atoms, doc, k)
        /\ k + Len(atoms) <= Len(doc)
        /\ doc[k + Len(atoms)] = "="}

\* The capture group ([^;]*): the longest run without ";" from position k.
UpToSemicolon(doc, k) ==
    LET rest == From(doc, k)
        semi == IndexOf(rest, ";")
    IN IF semi = 0 THEN rest ELSE Before(rest, semi)

\* matches[1] of document.cookie.match(...), or Undefined when there is no match.
CookieRawValue(doc, name) ==
    LET atoms  == RegExpAtoms(EscapeRegExp(name))
        starts == CookieMatchStarts(doc, atoms)
    IN IF starts = {} THEN Undefined
       ELSE LET k == CHOOSE x \in starts : \A y \in starts : x <= y
            IN Str(UpToSemicolon(doc, k + Len(atoms) + 1))

\* getCookie throws URIError where the matched text is not a well-formed escape sequence.
getCookieThrows(doc, name) ==
    LET raw == CookieRawValue(doc, name)
    IN raw.tag = "string" /\ ~WellFormedURIComponent(raw.chars)

getCookie(doc, name) ==
    LET raw == CookieRawValue(doc, name)
    IN IF raw.tag = "string" THEN Str(decodeURIComponent(raw.chars)) ELSE Undefined

\* A cookie option: a key with a text value, or a key whose value is `true` (a bare flag).
Option(key, text) == [key |-> key, flag |-> FALSE, text |-> text]

Flag(key) == [key |-> key, flag |-> TRUE, text |-> <<>>]

PathKey == <<"p", "a", "t", "h">>

\* { path: '/', ...options }: path keeps the first place, a caller's path replaces '/'.
WithDefaultPath(options) ==
    LET given == SelectSeq(options, LAMBDA o : o.key = PathKey)
        rest  == SelectSeq(options, LAMBDA o : o.key # PathKey)
    IN <<IF given = <<>> THEN Option(PathKey, <<"/">>) ELSE given[Len(given)]>> \o rest

RECURSIVE OptionsText(_)
\* The for-in loop: "; key" and, unless the value is true, "=value".
OptionsText(options) ==
    IF options = <<>> THEN <<>>
    ELSE <<";", " ">> \o Head(options).key
         \o (IF Head(options).flag THEN <<>> ELSE <<"=">> \o Head(options).text)
         \o OptionsText(Tail(options))

\* updatedCookie with the value written as given, not encoded.
updatedCookieRaw(name, value, options) ==
    encodeURIComponent(name) \o <<"=">> \o value \o OptionsText(WithDefaultPath(options))

\* The text setCookie assigns to document.cookie.
updatedCookie(name, value, options) ==
    encodeURIComponent(name) \o <<"=">> \o encodeURIComponent(value)
    \o OptionsText(WithDefaultPath(options))

\* setCookie that builds the text and never assigns it to document.cookie.
setCookieNotAssigned(store, name, value, options) == store

\* The cookie store after setCookie(name, value, options).
setCookie(store, name, value, options) ==
    DocumentCookieAssign(store, updatedCookie(name, value, options))

(***************************************************************************)
(* The page, the inputs of the calls and the answers of the network.       *)
(***************************************************************************)
\* globalAny.location.origin, REDUX_STATE.paths.loginPath and .rootPath of the host page.
Origin == <<"a", ".", "x">>

LoginPath == <<"/", "l">>

RootPath == <<"/", "r">>

\* The name of the token cookie.
SK == <<"s", "k">>

\* A cookie of the page that is not the client's, whose name ends in "sk".
ForeignCookie == [name |-> <<"x", "s", "k">>, value |-> <<"q">>, maxAge |-> SessionCookie]

\* Cookie sk as an earlier load of the page left it: the token "b;", encoded.
EarlierToken == [name |-> SK, value |-> <<"b", "%", "3", "B">>, maxAge |-> 3600]

\* Values the token endpoint may answer in `sk`.
Tokens == {<<>>, <<"b", ";">>}

\* Values the token endpoint may answer in "max-age-seconds".
MaxAges == {0, 3600}

\* The `data` of a call: absent or an object.
DataValues == {"undefined", "object"}

DataTruthy(data) == data = "object"

\* The `method` transport option of a call: absent ("none") or a method name.
MethodOptions == {"none", "GET", "POST"}

Error(name, message) == [name |-> name, message |-> message]

NoError == Error("", <<>>)

\* The error the transport rejects with when the server cannot be reached.
TransportErrors == {Error("Error", <<"Network Error">>)}

\* String(error), as interpolated by `${error}`.
ErrorText(e) == <<e.name, ": ">> \o e.message

\* response.request.responseURL of a primary response: none, the login page (bare,
\* with a query) and another page of the site.
ResponseURLs == {<<>>,
                 Origin \o LoginPath,
                 Origin \o LoginPath \o <<"?", "q">>,
                 Origin \o RootPath}

ActionMethods == {"resourceAction", "recordAction", "bulkAction"}

(***************************************************************************)
(* State.                                                                  *)
(***************************************************************************)
VARIABLES
    isOnServer,   \* globalAny.isOnServer: the module was loaded without a window
    store,        \* the browser's cookies of the page, behind document.cookie
    call,         \* per caller: the invocation in progress or last finished
    ncalls,       \* invocations made so far
    window        \* bookkeeping of the current period in which cookie sk is missing

vars == <<isOnServer, store, call, ncalls, window>>

NoRequest == [method |-> "none", csrf |-> Undefined]

NoResult == [kind |-> "none", url |-> <<>>, token |-> Undefined, error |-> NoError]

\* An invocation.  pc is the await it is suspended at: "token" is the request to the
\* token endpoint inside getToken, "resume" the `await this.getToken()` of an action
\* method whose getToken has returned, "primary" the primary request, "recheck" the
\* `await this.resourceAction()` of searchRecords whose resourceAction has returned.
\* csrfToken is the value getToken returned to an action method and thrown the error
\* the awaited method (getToken, or the resourceAction of searchRecords) rejected
\* with (NoError: none), until the method goes on; req is the request
\* handed to the main transport client; trace lists what the invocation did, in order;
\* assigned is the URL it passed to location.assign (the trace event "assign").  The
\* fields resident .. atSend record what the invocation observed when it happened:
\* the stored text of cookie sk and the value getCookie gave when getToken began, the
\* answer or failure of the network, the text assigned to document.cookie, and what
\* getCookie('sk') gives right after getToken returned and when the request is sent.
IdleCall ==
    [pc |-> "idle", method |-> "none", data |-> "undefined", mopt |-> "none",
     csrfToken |-> Undefined, thrown |-> NoError, req |-> NoRequest, trace |-> <<>>, assigned |-> <<>>,
     result |-> NoResult,
     resident |-> Undefined, saw |-> Undefined, answer |-> [sk |-> <<>>, maxAge |-> 0],
     cause |-> NoError, cookieText |-> <<>>, cookieAfter |-> Undefined,
     atSend |-> Undefined]

NoWindow == [reqs |-> 0, overlap |-> FALSE, unset |-> FALSE]

Init ==
    /\ isOnServer \in BOOLEAN
    /\ store \in IF isOnServer THEN {<<>>} ELSE {<<ForeignCookie>>, <<ForeignCookie, EarlierToken>>}
    /\ call = [p \in Procs |-> IdleCall]
    /\ ncalls = 0
    /\ window = NoWindow

\* ApiClient.getBaseUrl(), the baseURL of the main transport client.
getBaseUrl == IF isOnServer THEN <<>> ELSE Concat(<<Origin, RootPath>>)

(***************************************************************************)
(* checkResponse and the method rules.                                     *)
(***************************************************************************)
loginUrl == Concat(<<Origin, LoginPath>>)

\* checkResponse comparing the response URL with === instead of match().
checkResponseExact(url) ==
    IF isOnServer THEN <<>>
    ELSE IF url = loginUrl THEN <<"alert", "assign">> ELSE <<>>

\* What checkResponse does for a response with this responseURL, in order.
checkResponse(url) ==
    IF isOnServer THEN <<>>
    ELSE IF url # <<>> /\ RegExpSearch(url, loginUrl)
         THEN <<"alert", "assign">>
         ELSE <<>>

\* The two branches of the conditional exchanged.
methodOfDataSwapped(data) == IF DataTruthy(data) THEN "GET" ELSE "POST"

\* const method = data ? 'POST' : 'GET'
methodOfData(data) == IF DataTruthy(data) THEN "POST" ELSE "GET"

\* The expression read as axiosParams.method || (data ? 'POST' : 'GET').
methodOfBulkParenthesised(mopt, data) == IF mopt # "none" THEN mopt ELSE methodOfData(data)

\* const method = axiosParams.method || data ? 'POST' : 'GET'
methodOfBulk(mopt, data) == IF mopt # "none" \/ DataTruthy(data) THEN "POST" ELSE "GET"

\* The `method` local of the three action methods.
methodLocal(m, data, mopt) ==
    IF m = "bulkAction" THEN methodOfBulk(mopt, data) ELSE methodOfData(data)

\* { url, method, ...axiosParams, data }: a `method` among the transport options
\* replaces the computed one.
requestMethod(method, mopt) == IF mopt # "none" THEN mopt ELSE method

\* The transport client's method for a request that names none.
TransportDefaultMethod == "GET"

Count(trace, ev) == Cardinality({i \in 1..Len(trace) : trace[i] = ev})

Has(trace, ev) == \E i \in 1..Len(trace) : trace[i] = ev

(***************************************************************************)
(* The steps of an invocation.  Each action runs the code from one         *)
(* suspension point to the next, as one task of the event loop does.       *)
(***************************************************************************)
NewCall(m, data, mopt) == [IdleCall EXCEPT !.method = m, !.data = data, !.mopt = mopt]

\* The promise of the method rejects with e.
Rejected(c, e) ==
    [c EXCEPT !.pc = "done", !.trace = @ \o <<"reject">>,
              !.result = [NoResult EXCEPT !.kind = "error", !.error = e]]

\* this.client.request({...}) / this.client.get(...): the request is handed to the
\* main transport client with the X-Csrf-Token header `csrf` (Undefined: no such
\* header); the method then awaits the response.  st is the cookie store at that time.
Requested(c, method, csrf, st) ==
    [c EXCEPT !.pc = "primary", !.trace = @ \o <<"primaryReq">>,
              !.req = [method |-> method, csrf |-> csrf],
              !.atSend = IF isOnServer THEN Undefined
                         ELSE getCookie(DocumentCookie(st), SK)]

\* getToken returns csrfToken: its own caller gets the token; an action method that
\* called it stays suspended at `await this.getToken()` and goes on in a later
\* microtask, with nothing sent yet.
AfterToken(c, csrfToken) ==
    IF c.method = "getToken"
    THEN [c EXCEPT !.pc = "done", !.trace = @ \o <<"resolve">>,
                   !.result = [NoResult EXCEPT !.kind = "token", !.token = csrfToken]]
    ELSE [c EXCEPT !.pc = "resume", !.csrfToken = csrfToken]

\* getToken rejects with e: its own caller gets the rejection; an action method that
\* called it stays suspended at `await this.getToken()`, its promise pending, and
\* rejects in a later microtask.
TokenRejected(c, e) ==
    IF c.method = "getToken" THEN Rejected(c, e)
    ELSE [c EXCEPT !.pc = "resume", !.thrown = e]

\* getToken that asks the token endpoint without looking at the cookie.
getTokenBeginAlwaysFetch(c) ==
    IF isOnServer
    THEN TokenRejected(c, Error("ReferenceError", <<"document is not defined">>))
    ELSE [c EXCEPT !.pc = "token", !.resident = StoredValue(store, SK),
                   !.saw = getCookie(DocumentCookie(store), SK),
                   !.trace = @ \o <<"tokenReq">>]

\* getToken up to its await: the cookie is read; a truthy value is returned at once,
\* otherwise the token endpoint is asked.  Without a document the read throws.
getTokenBegin(c) ==
    IF isOnServer
    THEN TokenRejected(c, Error("ReferenceError", <<"document is not defined">>))
    ELSE LET doc == DocumentCookie(store)
             tokenFromCookie == getCookie(doc, SK)
             c1 == [c EXCEPT !.resident = StoredValue(store, SK)]
         IN IF getCookieThrows(doc, SK)
            THEN TokenRejected(c1, Error("URIError", <<"URI malformed">>))
            ELSE IF Truthy(tokenFromCookie)
                 THEN AfterToken([c1 EXCEPT !.saw = tokenFromCookie], tokenFromCookie)
                 ELSE [c1 EXCEPT !.pc = "token", !.saw = tokenFromCookie,
                                 !.trace = @ \o <<"tokenReq">>]

\* An action method up to its first await.
actionBegin(c) ==
    LET method == methodLocal(c.method, c.data, c.mopt)
    IN IF method = "POST" THEN getTokenBegin(c)
       ELSE Requested(c, requestMethod(method, c.mopt), Undefined, store)

\* The window bookkeeping after a step that takes the cookies from `old` to `new`:
\* a window is a period in which cookie sk is missing.
WindowAfter(old, new, sent, others, noCookie) ==
    IF HasCookie(new, SK) \/ HasCookie(old, SK) THEN NoWindow
    ELSE [reqs    |-> window.reqs + (IF sent THEN 1 ELSE 0),
          overlap |-> window.overlap \/ (sent /\ others),
          unset   |-> window.unset \/ noCookie]

\* A new invocation takes the first free slot p and runs to the state c.
Invoked(p, c) ==
    /\ call[p].pc = "idle"
    /\ \A q \in Procs : q < p => call[q].pc # "idle"
    /\ ncalls < MaxCalls
    /\ call' = [call EXCEPT ![p] = c]
    /\ ncalls' = ncalls + 1
    /\ window' = WindowAfter(store, store, c.pc = "token",
                             \E q \in Procs \ {p} : call[q].pc = "token", FALSE)
    /\ UNCHANGED <<isOnServer, store>>

searchRecords(p) ==
    LET c == NewCall("searchRecords", "undefined", "none")
    IN Invoked(p, IF isOnServer
                  THEN [c EXCEPT !.pc = "done", !.trace = <<"resolve">>,
                                 !.result = [NoResult EXCEPT !.kind = "records"]]
                  ELSE Requested(c, requestMethod(methodOfData("undefined"), "none"),
                                 Undefined, store))

resourceAction(p, data, mopt) == Invoked(p, actionBegin(NewCall("resourceAction", data, mopt)))

recordAction(p, data, mopt) == Invoked(p, actionBegin(NewCall("recordAction", data, mopt)))

bulkAction(p, data, mopt) == Invoked(p, actionBegin(NewCall("bulkAction", data, mopt)))

\* this.client.get('/api/dashboard', options): the get shorthand fixes the method.
getDashboard(p, mopt) ==
    Invoked(p, Requested(NewCall("getDashboard", "undefined", mopt), "GET", Undefined, store))

\* this.client.request({ url, ...axiosParams })
getPage(p, mopt) ==
    Invoked(p, Requested(NewCall("getPage", "undefined", mopt),
                         requestMethod(TransportDefaultMethod, mopt), Undefined, store))

getToken(p) == Invoked(p, getTokenBegin(NewCall("getToken", "undefined", "none")))

\* An action method goes on after `await this.getToken()`: the await throws what
\* getToken rejected with, which nothing catches; otherwise the method attaches the
\* header X-Csrf-Token and hands the request to the main transport client.
actionResume(p) ==
    LET c == call[p]
    IN /\ c.pc = "resume"
       /\ call' = [call EXCEPT ![p] =
                      IF c.thrown # NoError THEN Rejected(c, c.thrown)
                      ELSE Requested(c, requestMethod(methodLocal(c.method, c.data, c.mopt),
                                                      c.mopt),
                                     c.csrfToken, store)]
       /\ UNCHANGED <<isOnServer, store, ncalls, window>>

\* A direct call of the public setCookie for cookie sk: a synchronous method, counted
\* among the invocations.  Without a document the assignment throws and nothing changes.
setCookieCall(value, maxAge) ==
    LET after == setCookie(store, SK, value, <<Option(MaxAgeKey, NumberToText(maxAge))>>)
    IN /\ ~isOnServer
       /\ ncalls < MaxCalls
       /\ ncalls' = ncalls + 1
       /\ store' = after
       /\ window' = WindowAfter(store, after, FALSE, FALSE, FALSE)
       /\ UNCHANGED <<isOnServer, call>>

\* The catch block rethrowing what it caught.
tokenErrorRethrown(e) == e

\* new Error(`CSRF token error: ${error}`)
tokenError(e) == Error("Error", <<"CSRF token error: ">> \o ErrorText(e))

\* The token endpoint answered { sk, "max-age-seconds": maxAge }: getToken stores the
\* cookie and returns sk.
TokenResponse(p, sk, maxAge) ==
    LET options == <<Option(MaxAgeKey, NumberToText(maxAge))>>
        after   == setCookie(store, SK, sk, options)
        c1      == [call[p] EXCEPT
                       !.answer = [sk |-> sk, maxAge |-> maxAge],
                       !.trace = @ \o <<"setCookie">>,
                       !.cookieText = updatedCookie(SK, sk, options),
                       !.cookieAfter = getCookie(DocumentCookie(after), SK)]
    IN /\ call[p].pc = "token"
       /\ store' = after
       /\ call' = [call EXCEPT ![p] = AfterToken(c1, Str(sk))]
       /\ window' = WindowAfter(store, after, FALSE, FALSE, maxAge <= 0)
       /\ UNCHANGED <<isOnServer, ncalls>>

\* The token request failed with e: the catch block of getToken.
TokenFailure(p, e) ==
    /\ call[p].pc = "token"
    /\ call' = [call EXCEPT ![p] = TokenRejected([call[p] EXCEPT !.cause = e], tokenError(e))]
    /\ window' = WindowAfter(store, store, FALSE, FALSE, TRUE)
    /\ UNCHANGED <<isOnServer, store, ncalls>>

\* The primary response arrived with this responseURL: the method that sent the
\* request checks it and returns it.  For searchRecords that method is resourceAction,
\* and searchRecords itself stays suspended at `await this.resourceAction()`.
PrimaryResponse(p, url) ==
    LET c      == call[p]
        events == checkResponse(url)
        c1     == [c EXCEPT !.trace = @ \o events,
                            !.assigned = IF Has(events, "assign") THEN loginUrl ELSE <<>>,
                            !.result = [NoResult EXCEPT !.url = url]]
    IN /\ c.pc = "primary"
       /\ call' = [call EXCEPT ![p] =
                      IF c.method = "searchRecords"
                      THEN [c1 EXCEPT !.pc = "recheck"]
                      ELSE [c1 EXCEPT !.pc = "done", !.trace = @ \o <<"resolve">>,
                                      !.result.kind = "response"]]
       /\ UNCHANGED <<isOnServer, store, ncalls, window>>

\* searchRecords goes on after `await this.resourceAction()`: the await throws what
\* resourceAction rejected with, which nothing catches; otherwise searchRecords checks
\* the response resourceAction already checked and returns the records.
searchResume(p) ==
    LET c      == call[p]
        events == checkResponse(c.result.url)
    IN /\ c.pc = "recheck"
       /\ call' = [call EXCEPT ![p] =
                      IF c.thrown # NoError THEN Rejected(c, c.thrown)
                      ELSE [c EXCEPT !.pc = "done",
                                     !.trace = @ \o events \o <<"resolve">>,
                                     !.assigned = IF Has(events, "assign") THEN loginUrl
                                                  ELSE @,
                                     !.result.kind = "records"]]
       /\ UNCHANGED <<isOnServer, store, ncalls, window>>

\* A failed primary request sent once more instead of being passed on.
PrimaryFailureRetried(p, e) ==
    /\ call[p].pc = "primary"
    /\ Count(call[p].trace, "primaryReq") < 2
    /\ call' = [call EXCEPT ![p] = [call[p] EXCEPT !.cause = e,
                                                   !.trace = @ \o <<"primaryReq">>]]
    /\ UNCHANGED <<isOnServer, store, ncalls, window>>

\* The primary request failed with e: nothing catches it, and the method that sent
\* the request rejects with e.  For searchRecords that method is resourceAction, and
\* searchRecords itself stays suspended at `await this.resourceAction()`, its promise
\* pending, and rejects in a later microtask.
PrimaryFailure(p, e) ==
    LET c == [call[p] EXCEPT !.cause = e]
    IN /\ call[p].pc = "primary"
       /\ call' = [call EXCEPT ![p] =
                      IF c.method = "searchRecords"
                      THEN [c EXCEPT !.pc = "recheck", !.thrown = e]
                      ELSE Rejected(c, e)]
    /\ UNCHANGED <<isOnServer, store, ncalls, window>>

\* The browser drops cookie sk when its max-age has passed.
CookieExpires ==
    /\ HasCookie(store, SK)
    /\ store' = RemoveCookie(store, SK)
    /\ window' = NoWindow
    /\ UNCHANGED <<isOnServer, call, ncalls>>

\* The caller of a settled method takes its result, in a microtask of its own.
Settled(p) ==
    /\ call[p].pc = "done"
    /\ call' = [call EXCEPT ![p] = IdleCall]
    /\ UNCHANGED <<isOnServer, store, ncalls, window>>

Next ==
    \/ \E p \in Procs : searchRecords(p)
    \/ \E p \in Procs, data \in DataValues, mopt \in MethodOptions : resourceAction(p, data, mopt)
    \/ \E p \in Procs, data \in DataValues, mopt \in MethodOptions : recordAction(p, data, mopt)
    \/ \E p \in Procs, data \in DataValues, mopt \in MethodOptions : bulkAction(p, data, mopt)
    \/ \E p \in Procs, mopt \in MethodOptions : getDashboard(p, mopt)
    \/ \E p \in Procs, mopt \in MethodOptions : getPage(p, mopt)
    \/ \E p \in Procs : getToken(p)
    \/ \E p \in Procs, sk \in Tokens, maxAge \in MaxAges : TokenResponse(p, sk, maxAge)
    \/ \E p \in Procs, e \in TransportErrors : TokenFailure(p, e)
    \/ \E p \in Procs : actionResume(p)
    \/ \E p \in Procs, url \in ResponseURLs : PrimaryResponse(p, url)
    \/ \E p \in Procs : searchResume(p)
    \/ \E p \in Procs, e \in TransportErrors : PrimaryFailure(p, e)
    \/ \E value \in Tokens, maxAge \in MaxAges : setCookieCall(value, maxAge)
    \/ CookieExpires
    \/ \E p \in Procs : Settled(p)

Spec == Init /\ [][Next]_vars

(***************************************************************************)
(* Properties.                                                             *)
(***************************************************************************)
\* The request of invocation c was handed to the main transport client.
Sent(c) == c.req.method # "none"

\* getToken returned to invocation c.
GotToken(c) ==
    \/ c.method = "getToken" /\ c.pc = "done" /\ c.result.kind = "token"
    \/ c.method \in ActionMethods /\ c.csrfToken.tag = "string"

\* The value getToken returned to invocation c.
TokenOf(c) == IF c.method = "getToken" THEN c.result.token ELSE c.csrfToken

EndsWith(trace, suffix) ==
    /\ Len(trace) >= Len(suffix)
    /\ SubSeq(trace, Len(trace) - Len(suffix) + 1, Len(trace)) = suffix

\* C1 as stated: in one window in which cookie sk is missing, at most one request is
\* sent to the token endpoint, whatever the interleaving of the getToken calls.
C1_AtMostOneTokenRequestPerWindow == window.reqs <= 1

\* C1, amended: in one window in which cookie sk is missing, a second request is sent
\* to the token endpoint only if an earlier one was still in flight when it was sent
\* (concurrent calls) or an earlier one ended without a cookie (the endpoint failed,
\* or answered a max-age <= 0).
C1_SecondTokenRequestOnlyAfterOverlapOrNoCookie ==
    window.reqs > 1 => (window.overlap \/ window.unset)

\* Two getToken calls of one window, the second begun while the first was in flight.
C1_Witness ==
    /\ window.reqs = 2
    /\ window.overlap
    /\ \A p \in Procs : call[p].pc = "token"

\* C2: every request handed to the main transport client with method POST carries
\* X-Csrf-Token, equal to the token in cookie sk when the request is sent.
C2_PostCarriesCurrentToken ==
    \A p \in Procs :
        call[p].req.method = "POST" =>
            /\ call[p].req.csrf.tag = "string"
            /\ call[p].req.csrf = call[p].atSend

C4_BulkPostIfMethodOrData ==
    \A p \in Procs :
        (call[p].method = "bulkAction" /\ Sent(call[p])) =>
            call[p].req.method =
                (IF call[p].mopt # "none" \/ call[p].data = "object" THEN "POST" ELSE "GET")

\* C4, amended: bulkAction resolves a token and attaches X-Csrf-Token whenever a method
\* option or data is given; the request has the method of the method option when one
\* is passed, and without one it is POST with data and GET without.
C4_BulkTokenIfMethodOrDataAndMethodOptionSent ==
    \A p \in Procs :
        (call[p].method = "bulkAction" /\ Sent(call[p])) =>
            /\ (call[p].req.csrf.tag = "string")
                   <=> (call[p].mopt # "none" \/ call[p].data = "object")
            /\ call[p].mopt # "none" => call[p].req.method = call[p].mopt
            /\ call[p].mopt = "none" /\ call[p].data = "object" => call[p].req.method = "POST"
            /\ call[p].mopt = "none" /\ call[p].data = "undefined" => call[p].req.method = "GET"

\* A bulkAction with the method option GET and no data: sent as GET, with the header.
C4_Witness ==
    \E p \in Procs :
        /\ call[p].method = "bulkAction"
        /\ call[p].mopt = "GET"
        /\ call[p].data = "undefined"
        /\ call[p].req.method = "GET"
        /\ call[p].req.csrf.tag = "string"

\* C5 as stated: whenever cookie sk is set when getToken is called, getToken returns
\* the value of the cookie, sends nothing to the token endpoint and writes no cookie.
C5_CookieSetMeansNoFetch ==
    \A p \in Procs :
        call[p].resident.tag = "string" =>
            /\ ~Has(call[p].trace, "tokenReq")
            /\ ~Has(call[p].trace, "setCookie")

\* C5, amended: whenever cookie sk is set to a non-empty value when getToken is called,
\* getToken returns the value of the cookie, sends nothing to the token endpoint and
\* writes no cookie; and getToken takes a value from the cookie in no other case.
C5_NonEmptyCookieMeansNoFetch ==
    \A p \in Procs :
        LET c == call[p]
        IN /\ (c.resident.tag = "string" /\ c.resident.chars # <<>>) =>
                  /\ ~Has(c.trace, "tokenReq")
                  /\ ~Has(c.trace, "setCookie")
                  /\ GotToken(c)
                  /\ \E t \in Tokens : /\ c.resident.chars = encodeURIComponent(t)
                                       /\ TokenOf(c) = Str(t)
           /\ (GotToken(c) /\ ~Has(c.trace, "tokenReq")) =>
                  c.resident.tag = "string" /\ c.resident.chars # <<>>

\* A getToken call that found the cookie set and returned its value.
C5_Witness ==
    \E p \in Procs :
        /\ call[p].method = "getToken"
        /\ call[p].pc = "done"
        /\ call[p].resident = Str(<<"b", "%", "3", "B">>)
        /\ call[p].result.token = Str(<<"b", ";">>)
        /\ call[p].trace = <<"resolve">>

\* The text the client is to assign to document.cookie for an answer of the token
\* endpoint, written out for each answer of the model.
ExpectedCookieText(answer) ==
    <<"s", "k", "=">>
    \o (IF answer.sk = <<>> THEN <<>> ELSE <<"b", "%", "3", "B">>)
    \o <<";", " ", "p", "a", "t", "h", "=", "/">>
    \o <<";", " ", "m", "a", "x", "-", "a", "g", "e", "=">>
    \o (IF answer.maxAge = 0 THEN <<"0">> ELSE <<"3", "6", "0", "0">>)

\* Invocation c found cookie sk missing and the token endpoint answered it.
FetchedToken(c) == c.resident.tag = "undefined" /\ Has(c.trace, "setCookie")

\* C6 as stated: with cookie sk absent and the token endpoint answering {sk: v,
\* "max-age-seconds": m}, getToken sends one request to the token endpoint, writes
\* cookie sk with value v and max-age m and returns v, and getCookie('sk') after
\* getToken completed returns v.
C6_FetchedTokenIsReadBack ==
    \A p \in Procs :
        FetchedToken(call[p]) =>
            /\ Count(call[p].trace, "tokenReq") = 1
            /\ call[p].cookieText = ExpectedCookieText(call[p].answer)
            /\ GotToken(call[p])
            /\ TokenOf(call[p]) = Str(call[p].answer.sk)
            /\ call[p].cookieAfter = Str(call[p].answer.sk)

\* C6, amended: as C6, but getCookie('sk') after getToken completed returns v when
\* m > 0; with m <= 0 the browser keeps no cookie and getCookie('sk') is undefined.
C6_FetchedTokenIsReadBackWhenMaxAgePositive ==
    \A p \in Procs :
        FetchedToken(call[p]) =>
            /\ Count(call[p].trace, "tokenReq") = 1
            /\ call[p].cookieText = ExpectedCookieText(call[p].answer)
            /\ GotToken(call[p])
            /\ TokenOf(call[p]) = Str(call[p].answer.sk)
            /\ call[p].cookieAfter =
                   (IF call[p].answer.maxAge > 0 THEN Str(call[p].answer.sk) ELSE Undefined)

\* getToken fetched the token "b;" with max-age 3600 and getCookie reads it back.
C6_Witness ==
    \E p \in Procs :
        /\ call[p].method = "getToken"
        /\ FetchedToken(call[p])
        /\ call[p].answer = [sk |-> <<"b", ";">>, maxAge |-> 3600]
        /\ call[p].result.token = Str(<<"b", ";">>)
        /\ call[p].cookieAfter = Str(<<"b", ";">>)

\* The step in which the token request of invocation p fails.
TokenRequestFails(p) ==
    /\ call[p].pc = "token"
    /\ call'[p].cause # NoError

\* The step in which an action method, whose getToken failed, goes on after its await.
FailedTokenAwaited(p) ==
    /\ call[p].pc = "resume"
    /\ call[p].cause # NoError
    /\ call'[p] # call[p]

\* The error with message "CSRF token error: " followed by the text of the cause.
WrappedCause(c) ==
    Error("Error", <<"CSRF token error: ", c.cause.name, ": ">> \o c.cause.message)

\* C7: when the token request of getToken fails, getToken rejects with a new error
\* whose message is "CSRF token error: " followed by the text of the cause, and so
\* does the method that awaited it; the cookies are left as they were, and the
\* invocation ends there: no primary request, no session-expiry check.
C7_TokenFailureIsWrappedAndEndsTheCall ==
    [][\A p \in Procs :
          /\ TokenRequestFails(p) =>
                 /\ call'[p].cause \in TransportErrors
                 /\ store' = store
                 /\ ~Sent(call'[p])
                 /\ IF call[p].method = "getToken"
                    THEN /\ call'[p].pc = "done"
                         /\ call'[p].result.error = WrappedCause(call'[p])
                         /\ call'[p].trace = <<"tokenReq", "reject">>
                    ELSE /\ call'[p].pc = "resume"
                         /\ call'[p].thrown = WrappedCause(call'[p])
                         /\ call'[p].trace = <<"tokenReq">>
          /\ FailedTokenAwaited(p) =>
                 /\ call'[p].pc = "done"
                 /\ call'[p].result.error = WrappedCause(call[p])
                 /\ call'[p].trace = <<"tokenReq", "reject">>
                 /\ ~Sent(call'[p])
                 /\ store' = store]_vars

\* A bulkAction that waited for the token and rejected with the wrapped error.
C7_Witness ==
    \E p \in Procs :
        /\ call[p].method = "bulkAction"
        /\ call[p].pc = "done"
        /\ call[p].trace = <<"tokenReq", "reject">>
        /\ call[p].result.error =
               Error("Error", <<"CSRF token error: ", "Error", ": ", "Network Error">>)
        /\ ~HasCookie(store, SK)

\* The primary request of invocation c failed in the transport and c has rejected.
PrimaryFailed(c) ==
    c.pc = "done" /\ c.result.kind = "error" /\ Has(c.trace, "primaryReq")

\* The resourceAction of the searchRecords invocation c has rejected; searchRecords
\* is still suspended at its await.
PrimaryFailurePending(c) == c.pc = "recheck" /\ c.thrown # NoError

\* C8: when the primary request fails, the method rejects with the error of the
\* transport itself, without alert or navigation, and sends nothing after it (for
\* searchRecords: neither while it is still suspended at its await nor when it
\* rejects); an invocation sends at most one primary request and at most one token
\* request.
C8_PrimaryFailurePassesThroughOnce ==
    \A p \in Procs :
        /\ Count(call[p].trace, "primaryReq") <= 1
        /\ Count(call[p].trace, "tokenReq") <= 1
        /\ call[p].pc = "primary" => EndsWith(call[p].trace, <<"primaryReq">>)
        /\ PrimaryFailurePending(call[p]) =>
               /\ call[p].method = "searchRecords"
               /\ call[p].cause \in TransportErrors
               /\ call[p].thrown = call[p].cause
               /\ call[p].trace = <<"primaryReq">>
               /\ call[p].assigned = <<>>
        /\ PrimaryFailed(call[p]) =>
               /\ call[p].cause \in TransportErrors
               /\ call[p].result.error = call[p].cause
               /\ EndsWith(call[p].trace, <<"primaryReq", "reject">>)
               /\ ~Has(call[p].trace, "alert")
               /\ ~Has(call[p].trace, "assign")
               /\ call[p].assigned = <<>>

\* A recordAction that fetched a token, sent its request and got the transport's
\* error, and a searchRecords that rejected with the error of its request.
C8_Witness ==
    /\ \E p \in Procs :
           /\ call[p].method = "recordAction"
           /\ call[p].trace = <<"tokenReq", "setCookie", "primaryReq", "reject">>
           /\ call[p].result.error = Error("Error", <<"Network Error">>)
    /\ \E p \in Procs :
           /\ call[p].method = "searchRecords"
           /\ call[p].trace = <<"primaryReq", "reject">>
           /\ call[p].result.error = Error("Error", <<"Network Error">>)

\* The response URLs of the model that are the login page.
LoginResponses == {<<"a", ".", "x", "/", "l">>, <<"a", ".", "x", "/", "l", "?", "q">>}

CheckedMethods == {"resourceAction", "recordAction", "bulkAction", "getDashboard", "getPage"}

\* C9: in a browser, a call whose primary response comes from the login URL raises
\* the alert, then sends the browsing context to the login URL, and then returns the
\* response; with another or no response URL, or outside a browser, it returns the
\* response with neither alert nor navigation.
C9_LoginRedirectAlertsThenNavigates ==
    \A p \in Procs :
        LET c == call[p]
        IN (c.method \in CheckedMethods /\ c.pc = "done" /\ c.result.kind # "error") =>
               /\ c.result.kind = "response"
               /\ IF ~isOnServer /\ c.result.url \in LoginResponses
                  THEN /\ EndsWith(c.trace, <<"primaryReq", "alert", "assign", "resolve">>)
                       /\ c.assigned = <<"a", ".", "x", "/", "l">>
                  ELSE /\ EndsWith(c.trace, <<"primaryReq", "resolve">>)
                       /\ ~Has(c.trace, "alert")
                       /\ ~Has(c.trace, "assign")
                       /\ c.assigned = <<>>

\* A getDashboard answered from the login page with a query: alert, navigation, response.
C9_Witness ==
    \E p \in Procs :
        /\ ~isOnServer
        /\ call[p].method = "getDashboard"
        /\ call[p].result.kind = "response"
        /\ call[p].result.url = <<"a", ".", "x", "/", "l", "?", "q">>
        /\ call[p].trace = <<"primaryReq", "alert", "assign", "resolve">>

\* C10: one invocation of a public method checks its response at most once: at most
\* one alert and one navigation.
C10_ResponseCheckedAtMostOnce ==
    \A p \in Procs :
        /\ Count(call[p].trace, "alert") <= 1
        /\ Count(call[p].trace, "assign") <= 1

\* Position of the first event ev in the trace, or 0.
FirstOf(trace, ev) ==
    IF Has(trace, ev) THEN CHOOSE i \in 1..Len(trace) :
                               /\ trace[i] = ev
                               /\ \A j \in 1..(i - 1) : trace[j] # ev
    ELSE 0

\* Invocation c asked the token endpoint or wrote cookie sk.
UsedTokenEndpoint(c) == Has(c.trace, "tokenReq") \/ Has(c.trace, "setCookie")

\* C11: a call whose primary request is sent with method GET sends nothing to the
\* token endpoint and writes no cookie; a call that has a primary request asks the
\* token endpoint and writes cookie sk only if that request is sent as POST, and then
\* before it is sent.
C11_GetSentNeverUsesTokenEndpoint ==
    \A p \in Procs :
        LET c == call[p]
        IN /\ c.req.method = "GET" => ~UsedTokenEndpoint(c)
           /\ (Sent(c) /\ UsedTokenEndpoint(c)) =>
                  /\ c.req.method = "POST"
                  /\ \A i \in 1..Len(c.trace) :
                         c.trace[i] \in {"tokenReq", "setCookie"} =>
                             i < FirstOf(c.trace, "primaryReq")

\* The invocations that resolve a token: getToken itself, resourceAction and
\* recordAction with data, bulkAction with data or a method option.
ResolvesToken(c) ==
    \/ c.method = "getToken"
    \/ c.method \in {"resourceAction", "recordAction"} /\ c.data = "object"
    \/ c.method = "bulkAction" /\ (c.data = "object" \/ c.mopt # "none")

\* Invocation p takes a step in this transition.
Steps(p) == call'[p] # call[p] /\ call'[p].pc # "idle"

\* What the code does instead: the token endpoint is asked and cookie sk written by
\* getToken itself or on behalf of a call whose `method` local is POST, whatever
\* method the request is then sent with (the caller's method option when one is
\* passed); the write comes after the request to the token endpoint, and both come
\* before the primary request of that call.  No step of another call changes the cookies.
TokenEndpointUsedByTokenResolvingCalls ==
    [][\A p \in Procs :
          LET c == call'[p]
          IN /\ ~ResolvesToken(c) => ~UsedTokenEndpoint(c)
             /\ (Steps(p) /\ ~ResolvesToken(c)) => store' = store
             /\ (Steps(p) /\ store' # store) =>
                    /\ call[p].pc = "token"
                    /\ EndsWith(call[p].trace, <<"tokenReq">>)
                    /\ Has(c.trace, "setCookie")
             /\ Has(c.trace, "setCookie") =>
                    /\ FirstOf(c.trace, "tokenReq") > 0
                    /\ FirstOf(c.trace, "tokenReq") < FirstOf(c.trace, "setCookie")
             /\ (UsedTokenEndpoint(c) /\ Sent(c)) =>
                    /\ c.method \in ActionMethods
                    /\ c.req.method = (IF c.mopt # "none" THEN c.mopt ELSE "POST")
                    /\ \A i \in 1..Len(c.trace) :
                           c.trace[i] \in {"tokenReq", "setCookie"} =>
                               i < FirstOf(c.trace, "primaryReq")]_vars

====
